---- MODULE Spec2Model ----
\* Group-scoped message routes (src/routes/api/messages.js, lines 1-157) and the
\* chat client's submit handler (lines 158-185), modelled statement by statement,
\* and the client's task board (columns and the New Task dialog, lines 241-260,
\* 451-483, 594-673).
\*
\* Library behaviour the handlers rely on, as the code uses it:
\*  - `User.findOne({username})._id` reads the property `_id` of the Query
\*    object that findOne returns (member access binds tighter than await); a
\*    Query has no such property, so the awaited value is `undefined`.
\*  - a filter field whose value is `undefined` is sent to the store as null,
\*    which matches documents where the field is missing or null.
\*  - `findOne` resolves to the document or null, `find` to an array; neither
\*    rejects when nothing matches.
\*  - `findOneAndUpdate` without {new: true} resolves to the document as it was
\*    BEFORE the update, or null when no document matches.
\*  - every `await` is a point where other requests' steps may interleave.
\*  - the two GET handlers (lines 20, 47) use `await` without being declared
\*    async; their bodies are modelled as the awaits they spell out.
EXTENDS Integers, Sequences, FiniteSets, TLC

\* ---------------------------------------------------------------- bounds
MaxMsgs == 2            \* messages the store may hold in one behaviour
MaxCols == 3            \* columns the board may show at once
MaxTasks == 2           \* task cards added to the board in one behaviour

\* ---------------------------------------------------------------- domains
Undefined == "undefined"
Null      == "null"

Users    == {"u1", "u2", "u3"}      \* user ids; the username of a user is its id
Groups   == {"g1", "g2"}
Slots    == {"r1"}                  \* request slots; a finished slot is reused
Contents == {Undefined, "", "a"}    \* req.body.content on POST: missing, empty, text
Edits    == {"b"}                   \* req.body.content on PATCH
Typed    == {"", "a"}               \* chatInput.value
MsgIds   == 1 .. MaxMsgs
Times    == 0 .. MaxMsgs

\* The `data` of a response body: null, one document, or an array.
NoData     == [kind |-> "null",  docs |-> << >>]
Doc(m)     == [kind |-> "doc",   docs |-> << m >>]
Array(seq) == [kind |-> "array", docs |-> seq]

NoRes == [status |-> 0, success |-> FALSE, data |-> NoData, error |-> Null]

VARIABLES
    groups,     \* Group collection: gid -> [adminId, members]
    messages,   \* Message collection, in insertion order
    nextId,     \* the next fresh message _id
    clock,      \* Date.now(), non-decreasing
    req,        \* slot -> the request in that slot, its locals and response
    emitted,    \* slot -> the "chatMessage" payloads the client emitted before
                \* sending the request in that slot
    cols,       \* task board: `var cols`, the total number of columns
    currentCol, \* task board: `var currentCol`, the column a new task goes to
    modal,      \* display of the New Task dialog (#myModal)
    delmodal,   \* display of the delete-column dialog (#deleteModal)
    columns,    \* the board's columns, left to right: the kind of onclick of
                \* each New Task button and the number of task cards
    opener,     \* the column whose New Task button was clicked last
    lastTask    \* the task addTask submitted last

routeVars == <<groups, messages, nextId, clock, req, emitted>>
board == <<cols, currentCol, modal, delmodal, columns, opener, lastTask>>
vars == <<routeVars, board>>

\* ------------------------------------------------------------ Entity Store
\* A filter value matches a stored field; an undefined filter value is sent
\* as null and matches a missing or null field.
FieldMatches(docVal, filterVal) ==
    IF filterVal = Undefined THEN docVal \in {Undefined, Null}
    ELSE docVal = filterVal

\* Group.findOne({_id: groupId, members: userId}): the group or null.
GroupFindOne(groupId, userId) ==
    IF /\ groupId \in DOMAIN groups
       /\ \E m \in groups[groupId].members : FieldMatches(m, userId)
    THEN groupId ELSE Null

\* Indexes of the messages matching {_id, groupId, senderId}.
MatchIdx(messageId, groupId, senderId) ==
    { i \in 1 .. Len(messages) :
        /\ messages[i]._id = messageId
        /\ messages[i].groupId = groupId
        /\ FieldMatches(messages[i].senderId, senderId) }

RECURSIVE InsertSorted(_, _)
InsertSorted(m, s) ==
    IF s = << >> THEN << m >>
    ELSE IF m.dateSent < Head(s).dateSent THEN << m >> \o s
    ELSE << Head(s) >> \o InsertSorted(m, Tail(s))

RECURSIVE SortByDateSent(_)
\* .sort({dateSent: 1}): ascending, ties keep insertion order.
SortByDateSent(s) ==
    IF s = << >> THEN << >>
    ELSE InsertSorted(s[Len(s)], SortByDateSent(SubSeq(s, 1, Len(s) - 1)))

\* Message.find({groupId}).sort({dateSent: 1})
MessageFind(groupId) ==
    SortByDateSent(SelectSeq(messages, LAMBDA m : m.groupId = groupId))

\* Message schema validation on save(): content is required (the schema file
\* is models/Message; the requirement is the one the service contract states:
\* createMessage requires non-empty content).
ValidMessage(content) == content \notin {Undefined, ""}

\* ----------------------------------------------------------------- routing
\* The router's table in registration order: method, number of path segments
\* after /api/messages, handler.
Routes ==
    << [method |-> "GET",    segs |-> "one", handler |-> "list"],
       [method |-> "GET",    segs |-> "one", handler |-> "get"],
       [method |-> "POST",   segs |-> "one", handler |-> "create"],
       [method |-> "DELETE", segs |-> "two", handler |-> "delete"],
       [method |-> "PATCH",  segs |-> "two", handler |-> "update"] >>

\* The first registered route that matches handles the request (no handler
\* calls next()); none matching, the framework answers 404.
Dispatch(method, segs) ==
    LET hits == { i \in 1 .. Len(Routes) :
                    Routes[i].method = method /\ Routes[i].segs = segs }
    IN  IF hits = {} THEN "none"
        ELSE Routes[CHOOSE i \in hits : \A j \in hits : i <= j].handler

\* `await User.findOne({username})._id`
FindOneId(username) == Undefined

\* --------------------------------------------------------------- requests
Operations ==
    { [name |-> "listMessages",  method |-> "GET",    segs |-> "one"],
      [name |-> "getMessage",    method |-> "GET",    segs |-> "two"],
      [name |-> "createMessage", method |-> "POST",   segs |-> "one"],
      [name |-> "updateMessage", method |-> "PATCH",  segs |-> "two"],
      [name |-> "deleteMessage", method |-> "DELETE", segs |-> "two"] }

Idle == [pc |-> "free", op |-> "none", handler |-> "none", caller |-> Null,
         groupId |-> Null, messageId |-> 0, content |-> Undefined,
         viaClient |-> FALSE, userId |-> Null, memberAtCheck |-> FALSE,
         memberAtWrite |-> FALSE, sent |-> 0, res |-> NoRes]

\* Creates received and not yet answered; with nextId it keeps the store
\* within MaxMsgs.
InFlightCreates ==
    Cardinality({ r \in Slots : req[r].handler = "create"
                                /\ req[r].pc \in {"handler", "write"} })

\* No task submitted yet.
NoTask == [columnName |-> 0, opener |-> 0, cols |-> 0]

\* The groups as formed: the admin is a member.
InitialGroups ==
    [g \in Groups |->
        IF g = "g1" THEN [adminId |-> "u1", members |-> {"u1", "u2"}]
                    ELSE [adminId |-> "u3", members |-> {"u3"}]]

Init ==
    /\ groups = InitialGroups
    /\ messages = << >>
    /\ nextId = 1
    /\ clock = 0
    /\ req = [r \in Slots |-> Idle]
    /\ emitted = [r \in Slots |-> {}]
    /\ cols = 1
    /\ currentCol = 1
    /\ modal = "none"
    /\ delmodal = "none"
    /\ columns = << [btn |-> "fixed", tasks |-> 0] >>
    /\ opener = 0
    /\ lastTask = NoTask

\* The response object has no property `res`: `res.status(200).res`.
ResRes == Undefined

\* The handler's last step sends the response. memberAtCheck and
\* memberAtWrite record whether the caller was a member when the group query
\* ran and when the last step ran; sent counts the responses sent.
Respond(r, status, success, data, error) ==
    req' = [req EXCEPT ![r].pc = "done",
                       ![r].sent = @ + 1,
                       ![r].memberAtWrite =
                           req[r].caller \in groups[req[r].groupId].members,
                       ![r].res = [status |-> status, success |-> success,
                                   data |-> data, error |-> error]]

\* A request reaches the router: ensureAuthenticated has put the caller in
\* req.user, the route table picks the handler.
Receive(r, op, caller, groupId, messageId, content) ==
    /\ req[r].pc \in {"free", "done"}
    /\ op.name = "createMessage" => (nextId - 1) + InFlightCreates < MaxMsgs
    /\ req' = [req EXCEPT ![r] =
                 [Idle EXCEPT !.pc = "handler", !.op = op.name,
                              !.handler = Dispatch(op.method, op.segs),
                              !.caller = caller, !.groupId = groupId,
                              !.messageId = messageId, !.content = content]]
    /\ emitted' = [emitted EXCEPT ![r] = {}]
    /\ UNCHANGED <<groups, messages, nextId, clock, board>>

\* ClickSubmit with the socket.emit line left out.
ClickSubmit_NoEmit(r, user, groupId, content) ==
    /\ req[r].pc \in {"free", "done"}
    /\ (nextId - 1) + InFlightCreates < MaxMsgs
    /\ emitted' = [emitted EXCEPT ![r] = {}]
    /\ req' = [req EXCEPT ![r] =
                 [Idle EXCEPT !.pc = "handler", !.op = "createMessage",
                              !.handler = Dispatch("POST", "one"),
                              !.caller = user, !.groupId = groupId,
                              !.content = content, !.viaClient = TRUE]]
    /\ UNCHANGED <<groups, messages, nextId, clock, board>>

\* submitChatButton click: emit the payload on the socket, then POST the
\* content to /api/messages/<groupId>.
ClickSubmit(r, user, groupId, content) ==
    /\ req[r].pc \in {"free", "done"}
    /\ (nextId - 1) + InFlightCreates < MaxMsgs
    /\ emitted' = [emitted EXCEPT ![r] = {[content |-> content, sender |-> user]}]
    /\ req' = [req EXCEPT ![r] =
                 [Idle EXCEPT !.pc = "handler", !.op = "createMessage",
                              !.handler = Dispatch("POST", "one"),
                              !.caller = user, !.groupId = groupId,
                              !.content = content, !.viaClient = TRUE]]
    /\ UNCHANGED <<groups, messages, nextId, clock, board>>

\* No route matches: the framework's default 404.
NoRoute(r) ==
    /\ req[r].pc = "handler" /\ req[r].handler = "none"
    /\ Respond(r, 404, FALSE, NoData, "NotFound")
    /\ UNCHANGED <<groups, messages, nextId, clock, emitted, board>>

\* The membership lookup of GET, POST and PATCH: the user id is looked up, the
\* group query runs, and its result is dropped.
AuthStep(r, h, next) ==
    /\ req[r].pc = "handler" /\ req[r].handler = h
    /\ LET userId == FindOneId(req[r].caller)
           group  == GroupFindOne(req[r].groupId, userId)
       IN  req' = [req EXCEPT ![r].pc = next, ![r].userId = userId,
                              ![r].memberAtCheck =
                                  req[r].caller \in groups[req[r].groupId].members]
    /\ UNCHANGED <<groups, messages, nextId, clock, emitted, board>>

ListAuth(r) == AuthStep(r, "list", "query")

\* GET /:groupId, after the group query: find the messages, then respond.
ListQuery(r) ==
    /\ req[r].pc = "query" /\ req[r].handler = "list"
    /\ LET msgs == MessageFind(req[r].groupId)
       IN  IF ResRes = Undefined
           THEN Respond(r, 500, FALSE, NoData, "TypeError")
           ELSE Respond(r, 200, TRUE, Array(msgs), Null)
    /\ UNCHANGED <<groups, messages, nextId, clock, emitted, board>>

CreateAuth(r) == AuthStep(r, "create", "write")

\* The message a save() stores for request r at time t.
NewMessage(r, t) ==
    [_id |-> nextId, groupId |-> req[r].groupId, senderId |-> req[r].userId,
     content |-> req[r].content, edited |-> FALSE, dateSent |-> t]

\* CreateSave storing the document without validating it.
CreateSave_NoValidation(r) ==
    /\ req[r].pc = "write" /\ req[r].handler = "create"
    /\ \E t \in {clock, clock + 1} \cap Times :
          /\ messages' = Append(messages, NewMessage(r, t))
          /\ nextId' = nextId + 1
          /\ clock' = t
          /\ Respond(r, 201, TRUE, Doc(NewMessage(r, t)), Null)
    /\ UNCHANGED <<groups, emitted, board>>

\* CreateSave with the membership verified again in the step that writes.
CreateSave_Recheck(r) ==
    /\ req[r].pc = "write" /\ req[r].handler = "create"
    /\ IF /\ ValidMessage(req[r].content)
          /\ req[r].caller \in groups[req[r].groupId].members
       THEN \E t \in {clock, clock + 1} \cap Times :
              /\ messages' = Append(messages, NewMessage(r, t))
              /\ nextId' = nextId + 1
              /\ clock' = t
              /\ Respond(r, 201, TRUE, Doc(NewMessage(r, t)), Null)
       ELSE /\ Respond(r, 500, FALSE, NoData, "Error")
            /\ UNCHANGED <<messages, nextId, clock>>
    /\ UNCHANGED <<groups, emitted, board>>

\* POST /:groupId, after the group query: new Message({...}).save(), respond.
CreateSave(r) ==
    /\ req[r].pc = "write" /\ req[r].handler = "create"
    /\ IF ValidMessage(req[r].content)
       THEN \E t \in {clock, clock + 1} \cap Times :
              LET newMessage == NewMessage(r, t)
              IN  /\ messages' = Append(messages, newMessage)
                  /\ nextId' = nextId + 1
                  /\ clock' = t
                  /\ Respond(r, 201, TRUE, Doc(newMessage), Null)
       ELSE /\ Respond(r, 500, FALSE, NoData, "ValidationError")
            /\ UNCHANGED <<messages, nextId, clock>>
    /\ UNCHANGED <<groups, emitted, board>>

UpdateAuth(r) == AuthStep(r, "update", "write")

\* UpdateWrite with the caller written into the update as well:
\* {content, edited: true, senderId: <caller>}.
UpdateWrite_SetsSender(r) ==
    /\ req[r].pc = "write" /\ req[r].handler = "update"
    /\ LET hits == MatchIdx(req[r].messageId, req[r].groupId, req[r].userId)
       IN  IF hits = {}
           THEN /\ Respond(r, 200, TRUE, NoData, Null)
                /\ UNCHANGED messages
           ELSE LET i == CHOOSE i \in hits : \A j \in hits : i <= j
                IN  /\ messages' = [messages EXCEPT
                                      ![i].content = req[r].content,
                                      ![i].edited = TRUE,
                                      ![i].senderId = req[r].caller]
                    /\ Respond(r, 200, TRUE, Doc(messages[i]), Null)
    /\ UNCHANGED <<groups, nextId, clock, emitted, board>>

\* PATCH /:groupId/:messageId, after the group query: findOneAndUpdate, respond.
UpdateWrite(r) ==
    /\ req[r].pc = "write" /\ req[r].handler = "update"
    /\ LET hits == MatchIdx(req[r].messageId, req[r].groupId, req[r].userId)
       IN  IF hits = {}
           THEN /\ Respond(r, 200, TRUE, NoData, Null)
                /\ UNCHANGED messages
           ELSE LET i == CHOOSE i \in hits : \A j \in hits : i <= j
                IN  /\ messages' = [messages EXCEPT
                                      ![i].content = req[r].content,
                                      ![i].edited = TRUE]
                    /\ Respond(r, 200, TRUE, Doc(messages[i]), Null)
    /\ UNCHANGED <<groups, nextId, clock, emitted, board>>

\* DELETE /:groupId/:messageId: currentUser is undefined, so evaluating
\* `currentUser._id` for the group filter throws before any query is made
\* (lines 112-122 are never reached); the catch block reports it.
DeleteHandler(r) ==
    /\ req[r].pc = "handler" /\ req[r].handler = "delete"
    /\ LET currentUser == FindOneId(req[r].caller)
       IN  /\ currentUser = Undefined
           /\ Respond(r, 500, FALSE, NoData, "TypeError")
    /\ UNCHANGED <<groups, messages, nextId, clock, emitted, board>>

\* Membership changes outside the message service: a member other than the
\* admin leaves the group.
RemoveMember(g, u) ==
    /\ u \in groups[g].members /\ u # groups[g].adminId
    /\ groups' = [groups EXCEPT ![g].members = @ \ {u}]
    /\ UNCHANGED <<messages, nextId, clock, req, emitted, board>>

Next ==
    \/ \E r \in Slots, op \in Operations, caller \in Users, g \in Groups :
         \E m \in (IF op.segs = "two" THEN MsgIds ELSE {0}) :
           \E c \in (IF op.name = "createMessage" THEN Contents
                     ELSE IF op.name = "updateMessage" THEN Edits
                     ELSE {Undefined}) :
             Receive(r, op, caller, g, m, c)
    \/ \E r \in Slots, u \in Users, g \in Groups, c \in Typed :
         ClickSubmit(r, u, g, c)
    \/ \E r \in Slots : NoRoute(r)
    \/ \E r \in Slots : ListAuth(r)
    \/ \E r \in Slots : ListQuery(r)
    \/ \E r \in Slots : CreateAuth(r)
    \/ \E r \in Slots : CreateSave(r)
    \/ \E r \in Slots : UpdateAuth(r)
    \/ \E r \in Slots : UpdateWrite(r)
    \/ \E r \in Slots : DeleteHandler(r)
    \/ \E g \in Groups, u \in Users : RemoveMember(g, u)

Spec == Init /\ [][Next]_vars

\* --------------------------------------------------------------- task board
\* The board's buttons sit under the New Task and delete-column dialogs, which
\* cover the window while shown (window.onclick, lines 315-319, takes a click
\* outside the dialog as a click on the modal element).
DialogsClosed == modal = "none" /\ delmodal = "none"

TotalTasks ==
    LET RECURSIVE Sum(_)
        Sum(s) == IF s = << >> THEN 0 ELSE Head(s).tasks + Sum(Tail(s))
    IN  Sum(columns)

\* makeTask(column)
MakeTask(column) ==
    /\ modal' = "block"
    /\ currentCol' = column

\* Click on the New Task button of column k. The button of the page's first
\* column calls makeTask(1) (window.onload); a button made by addCol calls
\* makeTask(cols), with `cols` read when the click happens.
NewTaskClick(k) ==
    /\ DialogsClosed
    /\ k \in 1 .. Len(columns)
    /\ MakeTask(IF columns[k].btn = "fixed" THEN 1 ELSE cols)
    /\ opener' = k
    /\ UNCHANGED <<cols, delmodal, columns, lastTask, routeVars>>

\* cancelTask: the dialog's cancel button.
CancelTask ==
    /\ modal = "block"
    /\ modal' = "none"
    /\ UNCHANGED <<cols, currentCol, delmodal, columns, opener, lastTask, routeVars>>

\* addCol: one more column, appended on the right.
AddCol ==
    /\ DialogsClosed
    /\ Len(columns) < MaxCols
    /\ cols' = cols + 1
    /\ columns' = Append(columns, [btn |-> "closure", tasks |-> 0])
    /\ UNCHANGED <<currentCol, modal, delmodal, opener, lastTask, routeVars>>

\* delCol: the last column is removed when it holds no task card; otherwise
\* the delete-column dialog is shown. With no column left, columns[cols-1] is
\* undefined and the handler throws before changing anything.
DelCol ==
    /\ DialogsClosed
    /\ cols \in 1 .. Len(columns)
    /\ IF columns[cols].tasks # 0
       THEN /\ delmodal' = "block"
            /\ UNCHANGED <<cols, columns>>
       ELSE /\ columns' = SubSeq(columns, 1, Len(columns) - 1)
            /\ cols' = cols - 1
            /\ UNCHANGED delmodal
    /\ UNCHANGED <<currentCol, modal, opener, lastTask, routeVars>>

\* keepCol: the delete-column dialog's keep button.
KeepCol ==
    /\ delmodal = "block"
    /\ delmodal' = "none"
    /\ UNCHANGED <<cols, currentCol, modal, columns, opener, lastTask, routeVars>>

\* addTask: the dialog's submit button. The task is posted with
\* columnName: currentCol, the task that comes back is appended to
\* col[task.columnName - 1] (appendNewInfo), and the dialog is closed; with no
\* such column appendChild throws and the dialog stays.
AddTask ==
    /\ modal = "block"
    /\ TotalTasks < MaxTasks
    /\ LET columnName == currentCol IN
       /\ lastTask' = [columnName |-> columnName, opener |-> opener, cols |-> cols]
       /\ IF columnName \in 1 .. Len(columns)
          THEN /\ columns' = [columns EXCEPT ![columnName].tasks = @ + 1]
               /\ modal' = "none"
          ELSE UNCHANGED <<columns, modal>>
    /\ UNCHANGED <<cols, currentCol, delmodal, opener, routeVars>>

BoardNext ==
    \/ \E k \in 1 .. MaxCols : NewTaskClick(k)
    \/ CancelTask
    \/ AddCol
    \/ DelCol
    \/ KeepCol
    \/ AddTask

BoardSpec == Init /\ [][BoardNext]_vars

TypeOK ==
    /\ nextId = Len(messages) + 1
    /\ clock \in Times

\* ------------------------------------------------------------------ claims
Done(r, op)  == req[r].pc = "done" /\ req[r].op = op
IsMember(r)  == req[r].caller \in groups[req[r].groupId].members
NeverMember(r) == req[r].caller \notin InitialGroups[req[r].groupId].members
IsAdmin(r)   == req[r].caller = groups[req[r].groupId].adminId
\* The stored messages with the given id in the given group.
Stored(messageId, groupId) ==
    { i \in 1 .. Len(messages) :
        messages[i]._id = messageId /\ messages[i].groupId = groupId }
Target(r) == Stored(req[r].messageId, req[r].groupId)
\* The step of slot r that ends its handler.
LastStep(r, h) ==
    req[r].handler = h /\ req[r].pc # "done" /\ req'[r].pc = "done"

\* C1: every Message Service operation on a group by a caller who is not (and
\* never was) a member of it fails, so no such caller's createMessage is stored.
C1_NonMemberFails ==
    \A r \in Slots :
        (req[r].pc = "done" /\ NeverMember(r)) => ~req[r].res.success

\* C2: an updateMessage on an existing message by a caller other than its
\* sender (the group admin included) fails and leaves the message as it was.
C2_UpdateAuthorOnly ==
    [][\A r \in Slots :
         (/\ LastStep(r, "update")
          /\ \E i \in Target(r) : messages[i].senderId # req[r].caller)
         => (~req'[r].res.success /\ messages' = messages)]_vars

\* C3: deleteMessage on an existing message by the group's admin or by the
\* message's sender succeeds and removes it; by another member it fails and the
\* message stays.
C3_DeleteByAdminOrSender ==
    \A r \in Slots :
        Done(r, "deleteMessage") =>
            IF IsAdmin(r) \/ \E i \in Target(r) : messages[i].senderId = req[r].caller
            THEN Target(r) = {}
            ELSE ~req[r].res.success

\* C4: createMessage by a member returns and stores a message whose senderId
\* is the caller, with the given groupId and edited = FALSE; an updateMessage
\* that finds the message returns it with the new content and edited = TRUE,
\* as stored.
C4_CreateThenUpdate ==
    \A r \in Slots :
        (req[r].pc = "done" /\ req[r].res.success /\ req[r].res.data.kind = "doc") =>
            LET m == req[r].res.data.docs[1] IN
            /\ req[r].op = "createMessage" =>
                 /\ m.senderId = req[r].caller
                 /\ m.groupId = req[r].groupId
                 /\ m.edited = FALSE
            /\ req[r].op = "updateMessage" =>
                 /\ m.content = req[r].content
                 /\ m.edited = TRUE
                 /\ \E i \in Target(r) : messages[i] = m

\* C5: a deleteMessage by the group admin reports success exactly when the
\* message id exists in the group at that moment: the first delete of a stored
\* message succeeds, a delete of a missing or already deleted one does not.
C5_DeleteTwice ==
    [][\A r \in Slots :
         (LastStep(r, "delete") /\ IsAdmin(r)) =>
             (req'[r].res.success <=> Target(r) # {})]_vars

\* C6: listMessages by a member succeeds and returns exactly the messages
\* stored with that groupId, ascending by dateSent (the empty sequence when
\* there are none).
C6_ListReturnsGroupMessages ==
    \A r \in Slots :
        (Done(r, "listMessages") /\ req[r].memberAtCheck) =>
            /\ req[r].res.success
            /\ req[r].res.data = Array(MessageFind(req[r].groupId))

\* C7: getMessage by a member returns the stored message with that id in that
\* group, and fails with NotFound when the group holds no such message.
C7_GetMessage ==
    \A r \in Slots :
        (Done(r, "getMessage") /\ IsMember(r)) =>
            IF Target(r) = {}
            THEN ~req[r].res.success /\ req[r].res.error = "NotFound"
            ELSE /\ req[r].res.success
                 /\ \E i \in Target(r) : req[r].res.data = Doc(messages[i])

C9_BroadcastAfterCreate ==
    \A r \in Slots :
        emitted[r] # {} =>
            /\ req[r].pc = "done" /\ req[r].res.status = 201
            /\ \E i \in 1 .. Len(messages) :
                 Doc(messages[i]) = req[r].res.data

\* C9 amended: the chat client's submit handler emits the broadcast of the
\* typed message before the create request it sends, whatever becomes of that
\* request; the route itself emits nothing.
C9_BroadcastBeforeCreate ==
    \A r \in Slots :
        emitted[r] = IF req[r].viaClient
                     THEN {[content |-> req[r].content, sender |-> req[r].caller]}
                     ELSE {}

C9_Witness ==
    \E r \in Slots :
        /\ Done(r, "createMessage") /\ req[r].viaClient
        /\ req[r].res.status = 201
        /\ emitted[r] = {[content |-> "a", sender |-> req[r].caller]}

\* C10: the write of a message operation is a store step of its own, taken
\* after the membership lookup, and it takes effect whatever the caller's
\* membership is when it runs.
C10_WriteIgnoresMembership ==
    [][\A r \in Slots :
         /\ (LastStep(r, "create") /\ ValidMessage(req[r].content)) =>
              /\ req[r].pc = "write"
              /\ Len(messages') = Len(messages) + 1
              /\ req'[r].res.status = 201
         /\ (LastStep(r, "update") /\ Target(r) # {}) =>
              /\ req[r].pc = "write"
              /\ \E i \in Target(r) : /\ messages'[i].content = req[r].content
                                      /\ messages'[i].edited
              /\ req'[r].res.status = 200]_vars

\* A message was created by a caller who was a member when the group was
\* queried and no longer one when the message was written.
C10_Witness ==
    \E r \in Slots :
        /\ Done(r, "createMessage") /\ req[r].res.status = 201
        /\ req[r].memberAtCheck /\ ~req[r].memberAtWrite

\* C11: every route handler sends exactly one response; a failure of any kind
\* is reported as 500 with success false, and a success status (200 for GET
\* and PATCH, 201 for POST, 204 for DELETE) is sent only when the operation
\* took effect.
C11_OneResponseFailuresAre500 ==
    [][\A r \in Slots :
         (req[r].pc # "done" /\ req'[r].pc = "done" /\ req[r].handler # "none") =>
            LET res  == req'[r].res
                h    == req[r].handler
                took == CASE h = "list"   -> res.data = Array(MessageFind(req[r].groupId))
                          [] h = "create" -> Len(messages') = Len(messages) + 1
                          [] h = "update" -> /\ Target(r) # {}
                                             /\ \A i \in Target(r) :
                                                  /\ messages'[i].content = req[r].content
                                                  /\ messages'[i].edited
                          [] h = "delete" -> /\ Target(r) # {}
                                             /\ Len(messages') = Len(messages) - 1
                          [] OTHER        -> FALSE
            IN  /\ req'[r].sent = 1
                /\ IF took
                   THEN /\ res.success
                        /\ res.status = (CASE h = "create" -> 201
                                           [] h = "delete" -> 204
                                           [] OTHER        -> 200)
                   ELSE ~res.success /\ res.status = 500]_vars

\* C12: a stored message keeps its groupId, senderId and dateSent; only content
\* and edited change, and edited never goes back to FALSE; a step that changes
\* a Group record is no step of a message route.
C12_MessageFrame ==
    [][/\ \A i \in 1 .. Len(messages), j \in 1 .. Len(messages') :
            messages'[j]._id = messages[i]._id =>
                /\ messages'[j].groupId = messages[i].groupId
                /\ messages'[j].senderId = messages[i].senderId
                /\ messages'[j].dateSent = messages[i].dateSent
                /\ messages[i].edited => messages'[j].edited
       /\ groups' # groups => (req' = req /\ messages' = messages)]_vars

\* An update has rewritten a stored message: what the store holds differs from
\* the document as it was before in content and edited, and in nothing else.
C12_Witness ==
    \E r \in Slots :
        /\ Done(r, "updateMessage") /\ req[r].res.data.kind = "doc"
        /\ \E i \in Target(r) :
             LET old == req[r].res.data.docs[1] IN
             /\ messages[i].content = "b" /\ messages[i].edited
             /\ old.content = "a" /\ ~old.edited
             /\ messages[i].groupId = old.groupId
             /\ messages[i].senderId = old.senderId
             /\ messages[i].dateSent = old.dateSent

\* C13: a task submitted by addTask carries columnName equal to the index k of
\* the column whose New Task button opened the dialog, with 1 <= k <= cols.
C13_TaskGoesToOpenedColumn ==
    lastTask # NoTask =>
        /\ lastTask.columnName = lastTask.opener
        /\ lastTask.opener \in 1 .. lastTask.cols
====
